---- MODULE Spec2Model ----
(***************************************************************************)
(* lambda.py: Church encodings and the Y combinator as Python closures.    *)
(*                                                                         *)
(* Every Python value is a record [tag, n, env]:                           *)
(*   tag  names the lambda (or "int", or a raised exception),              *)
(*   n    is the payload of a host integer (0 otherwise),                  *)
(*   env  is the tuple of variables the closure has captured so far.       *)
(* A call is evaluated by Call(fn, args, log, d): args is the tuple of     *)
(* actual arguments (Python checks the arity), log is the trace of calls   *)
(* made to host leaf functions (INC, the driver's doubling function, the   *)
(* thunks a caller hands in), d is the number of interpreter frames left.  *)
(* A result is [v, log]; a raised exception is a value whose tag is in     *)
(* FaultTags and it propagates through every enclosing call.               *)
(***************************************************************************)
EXTENDS Integers, Sequences

VARIABLES op, args, res, num, succs, ops, pr, lst, elems, yf

vars == <<op, args, res, num, succs, ops, pr, lst, elems, yf>>

-----------------------------------------------------------------------------
(* Bounds of the model.                                                    *)

MaxDepth == 18      \* interpreter frames available to one evaluation
MaxN == 3           \* the driver builds numeral(k) for k in 0..MaxN
MaxNat == 16        \* the numeral held is kept <= MaxNat
MaxOps == 2         \* SUCC/SUM/MULT steps applied to the numeral held
MaxLen == 3         \* CONS cells in the list register
MaxArg == 5         \* largest integer handed to a Y-built function

-----------------------------------------------------------------------------
(* Values.                                                                 *)

IntV(k) == [tag |-> "int", n |-> k, env |-> <<>>]
Clo(t, e) == [tag |-> t, n |-> 0, env |-> e]
Exc(t) == [tag |-> t, n |-> 0, env |-> <<>>]
R(v, log) == [v |-> v, log |-> log]

TypeError == Exc("TypeError")
VoidError == Exc("Exception: Cannot invoke VOID!")
RecursionError == Exc("RecursionError")
HostError == Exc("HostError")
FaultTags == {TypeError.tag, VoidError.tag, RecursionError.tag, HostError.tag}
IsFault(v) == v.tag \in FaultTags

\* Host thunks handed in by a caller: zero-argument producers.
Thunk(id, ret) == [tag |-> "thunk", n |-> id, env |-> <<ret>>]
Raiser(id) == [tag |-> "raiser", n |-> id, env |-> <<>>]

\* The function objects bound to the module's global names.
ID_v == Clo("ID", <<>>)
VOID_v == ID_v
dbgVOID_v == Clo("_VOID", <<>>)
TRUE_v == Clo("TRUE", <<>>)
FALSE_v == Clo("FALSE", <<>>)
IF_v == Clo("IF", <<>>)
compose_v == Clo("compose", <<>>)
ONE_v == Clo("ONE", <<>>)
TWO_v == Clo("TWO", <<>>)
THREE_v == Clo("THREE", <<>>)
numeral_v == Clo("numeral", <<>>)
INC_v == Clo("INC", <<>>)
natify_v == Clo("natify", <<>>)
SUCC_v == Clo("SUCC", <<>>)
SUM_v == Clo("SUM", <<>>)
MULT_v == Clo("MULT", <<>>)
PAIR_v == Clo("PAIR", <<>>)
LEFT_v == Clo("LEFT", <<>>)
RIGHT_v == Clo("RIGHT", <<>>)
NIL_v == Clo("NIL", <<>>)
CONS_v == Clo("CONS", <<>>)
NILP_v == Clo("NILP", <<>>)
HEAD_v == Clo("HEAD", <<>>)
TAIL_v == Clo("TAIL", <<>>)
U_v == Clo("U", <<>>)
\* Y is the value of (lambda h: lambda F: ...)(lambda h: lambda F: ...):
\* the inner lambda F with h bound to the (textually identical) outer lambda.
Y_v == Clo("Y.F", <<Clo("Y.h", <<>>)>>)
\* The driver's host functions: lambda x: 2*x and the factorial generator.
DBL_v == Clo("DBL", <<>>)
fact_v == Clo("fact", <<>>)

\* Number of parameters of the lambda a tag names; -1: not callable.
Arity(t) ==
  CASE t \in {"thunk", "raiser", "NILP.onnil"} -> 0
    [] t = "compose" -> 2
    [] t \in {"int"} \cup FaultTags -> -1
    [] OTHER -> 1

-----------------------------------------------------------------------------
(* Evaluation.                                                             *)

RECURSIVE Call(_, _, _, _)

\* f(a)(b): two calls, left to right.
Call2(f, a, b, log, d) ==
  LET r == Call(f, <<a>>, log, d)
  IN IF IsFault(r.v) THEN r ELSE Call(r.v, <<b>>, r.log, d)

ID_body(z, log, d) == R(z, log)

dbgVOID_body(x, log, d) == R(VoidError, log)

TRUE_body(true_value, false_val, log, d) == Call(true_value, <<>>, log, d)

FALSE_body(true_value, false_value, log, d) == Call(false_value, <<>>, log, d)


\* Mutant of IF_body: the two thunks handed over in the wrong order.
IF_body_swapped(cond, true_value, false_value, log, d) ==
  Call2(cond, false_value, true_value, log, d)

IF_body(cond, true_value, false_value, log, d) ==
  Call2(cond, true_value, false_value, log, d)

compose_body(f, g, x, log, d) ==
  LET r == Call(g, <<x>>, log, d)
  IN IF IsFault(r.v) THEN r ELSE Call(f, <<r.v>>, r.log, d)

ONE_body(f, log, d) == R(f, log)

TWO_body(f, log, d) == Call(compose_v, <<f, f>>, log, d)


\* Mutant of THREE_body: f composed with itself once, as in TWO.
THREE_body_asTWO(f, log, d) == Call(compose_v, <<f, f>>, log, d)

THREE_body(f, log, d) ==
  LET r == Call(TWO_v, <<f>>, log, d)
  IN IF IsFault(r.v) THEN r ELSE Call(compose_v, <<f, r.v>>, r.log, d)

\* Host arithmetic on a value: a non-integer operand raises TypeError.
HostAdd(x, k) == IF x.tag = "int" THEN IntV(x.n + k) ELSE TypeError
HostMul(k, x) == IF x.tag = "int" THEN IntV(k * x.n) ELSE TypeError


\* Mutant of numeral_body: the base case taken one step early.
numeral_body_early(n, f, z, log, d) ==
  IF n = IntV(0) \/ n = IntV(1)
    THEN R(z, log)
    ELSE LET r1 == Call(numeral_v, <<HostAdd(n, -1)>>, log, d)
             r2 == Call2(r1.v, f, z, r1.log, d)
         IN IF IsFault(r2.v) THEN r2 ELSE Call(f, <<r2.v>>, r2.log, d)

numeral_body(n, f, z, log, d) ==
  IF n = IntV(0)
    THEN R(z, log)
    ELSE LET m == HostAdd(n, -1)
             r1 == Call(numeral_v, <<m>>, log, d)
             r2 == Call2(r1.v, f, z, r1.log, d)
         IN IF IsFault(m) THEN R(m, log)
            ELSE IF IsFault(r1.v) THEN r1
            ELSE IF IsFault(r2.v) THEN r2
            ELSE Call(f, <<r2.v>>, r2.log, d)

INC_body(x, log, d) == R(HostAdd(x, 1), Append(log, INC_v))

DBL_body(x, log, d) == R(HostMul(2, x), Append(log, DBL_v))

natify_body(f, log, d) == Call2(f, INC_v, IntV(0), log, d)


\* Mutant of SUCC_body: the additional application of f left out.
SUCC_body_same(n, f, z, log, d) == Call2(n, f, z, log, d)

SUCC_body(n, f, z, log, d) ==
  LET r == Call2(n, f, z, log, d)
  IN IF IsFault(r.v) THEN r ELSE Call(f, <<r.v>>, r.log, d)


\* Mutant of SUM_body: n(f) composed with itself.
SUM_body_nn(n, m, f, log, d) ==
  LET r1 == Call(n, <<f>>, log, d)
      r2 == Call(n, <<f>>, r1.log, d)
  IN IF IsFault(r1.v) THEN r1
     ELSE IF IsFault(r2.v) THEN r2
     ELSE Call(compose_v, <<r1.v, r2.v>>, r2.log, d)

SUM_body(n, m, f, log, d) ==
  LET r1 == Call(n, <<f>>, log, d)
      r2 == Call(m, <<f>>, r1.log, d)
  IN IF IsFault(r1.v) THEN r1
     ELSE IF IsFault(r2.v) THEN r2
     ELSE Call(compose_v, <<r1.v, r2.v>>, r2.log, d)


\* Mutant of MULT_body: addition in place of multiplication.
MULT_body_asSUM(n, m, log, d) == Call2(SUM_v, n, m, log, d)

MULT_body(n, m, log, d) == Call(compose_v, <<n, m>>, log, d)

PAIR_body(a, b, f, log, d) == Call2(f, a, b, log, d)

LEFT_body(pair, log, d) == Call(pair, <<Clo("LEFT.sel", <<>>)>>, log, d)


\* Mutant of RIGHT_body: the selector of LEFT.
RIGHT_body_first(pair, log, d) == Call(pair, <<Clo("LEFT.sel", <<>>)>>, log, d)

RIGHT_body(pair, log, d) == Call(pair, <<Clo("RIGHT.sel", <<>>)>>, log, d)

NIL_body(onnil, onlist, log, d) == Call(onnil, <<>>, log, d)

CONS_body(hd, tl, onnil, onlist, log, d) == Call2(onlist, hd, tl, log, d)

NILP_body(l, log, d) ==
  Call2(l, Clo("NILP.onnil", <<>>), Clo("NILP.onlist", <<>>), log, d)

HEAD_body(l, log, d) == Call2(l, VOID_v, Clo("HEAD.onlist", <<>>), log, d)


\* Mutant of TAIL_body: the handler of HEAD.
TAIL_body_head(l, log, d) == Call2(l, VOID_v, Clo("HEAD.onlist", <<>>), log, d)

TAIL_body(l, log, d) == Call2(l, VOID_v, Clo("TAIL.onlist", <<>>), log, d)

U_body(f, log, d) == Call(f, <<f>>, log, d)

Y_F_body(h, F, log, d) == Call(F, <<Clo("Y.eta", <<h, F>>)>>, log, d)


\* Mutant of Y_eta_body: h applied to F without the self-application.
Y_eta_body_noself(h, F, x, log, d) == Call2(h, F, x, log, d)

Y_eta_body(h, F, x, log, d) ==
  LET r == Call2(h, h, F, log, d)
  IN IF IsFault(r.v) THEN r ELSE Call(r.v, <<x>>, r.log, d)

\* lambda f: lambda n: 1 if n <= 0 else n*f(n-1)
fact_body(f, n, log, d) ==
  IF n.tag # "int" THEN R(TypeError, log)
  ELSE IF n.n <= 0 THEN R(IntV(1), log)
  ELSE LET r == Call(f, <<IntV(n.n - 1)>>, log, d)
       IN IF IsFault(r.v) THEN r ELSE R(HostMul(n.n, r.v), r.log)

thunk_body(t, log, d) == R(t.env[1], Append(log, t))

raiser_body(t, log, d) == R(HostError, Append(log, t))

\* The body of the lambda fn names, with its captured variables e and the
\* actual arguments a.  A lambda whose body is another lambda returns the
\* closure that has captured one more variable.
Body(fn, a, log, d) ==
  LET t == fn.tag
      e == fn.env
  IN CASE t = "ID" -> ID_body(a[1], log, d)
       [] t = "_VOID" -> dbgVOID_body(a[1], log, d)
       [] t = "TRUE" -> R(Clo("TRUE.1", a), log)
       [] t = "TRUE.1" -> TRUE_body(e[1], a[1], log, d)
       [] t = "FALSE" -> R(Clo("FALSE.1", a), log)
       [] t = "FALSE.1" -> FALSE_body(e[1], a[1], log, d)
       [] t = "IF" -> R(Clo("IF.1", a), log)
       [] t = "IF.1" -> R(Clo("IF.2", e \o a), log)
       [] t = "IF.2" -> IF_body(e[1], e[2], a[1], log, d)
       [] t = "compose" -> R(Clo("compose.1", a), log)
       [] t = "compose.1" -> compose_body(e[1], e[2], a[1], log, d)
       [] t = "ONE" -> ONE_body(a[1], log, d)
       [] t = "TWO" -> TWO_body(a[1], log, d)
       [] t = "THREE" -> THREE_body(a[1], log, d)
       [] t = "numeral" -> R(Clo("numeral.1", a), log)
       [] t = "numeral.1" -> R(Clo("numeral.2", e \o a), log)
       [] t = "numeral.2" -> numeral_body(e[1], e[2], a[1], log, d)
       [] t = "INC" -> INC_body(a[1], log, d)
       [] t = "DBL" -> DBL_body(a[1], log, d)
       [] t = "natify" -> natify_body(a[1], log, d)
       [] t = "SUCC" -> R(Clo("SUCC.1", a), log)
       [] t = "SUCC.1" -> R(Clo("SUCC.2", e \o a), log)
       [] t = "SUCC.2" -> SUCC_body(e[1], e[2], a[1], log, d)
       [] t = "SUM" -> R(Clo("SUM.1", a), log)
       [] t = "SUM.1" -> R(Clo("SUM.2", e \o a), log)
       [] t = "SUM.2" -> SUM_body(e[1], e[2], a[1], log, d)
       [] t = "MULT" -> R(Clo("MULT.1", a), log)
       [] t = "MULT.1" -> MULT_body(e[1], a[1], log, d)
       [] t = "PAIR" -> R(Clo("PAIR.1", a), log)
       [] t = "PAIR.1" -> R(Clo("PAIR.2", e \o a), log)
       [] t = "PAIR.2" -> PAIR_body(e[1], e[2], a[1], log, d)
       [] t = "LEFT" -> LEFT_body(a[1], log, d)
       [] t = "LEFT.sel" -> R(Clo("LEFT.sel.1", a), log)
       [] t = "LEFT.sel.1" -> R(e[1], log)
       [] t = "RIGHT" -> RIGHT_body(a[1], log, d)
       [] t = "RIGHT.sel" -> R(Clo("RIGHT.sel.1", a), log)
       [] t = "RIGHT.sel.1" -> R(a[1], log)
       [] t = "NIL" -> R(Clo("NIL.1", a), log)
       [] t = "NIL.1" -> NIL_body(e[1], a[1], log, d)
       [] t = "CONS" -> R(Clo("CONS.1", a), log)
       [] t = "CONS.1" -> R(Clo("CONS.2", e \o a), log)
       [] t = "CONS.2" -> R(Clo("CONS.3", e \o a), log)
       [] t = "CONS.3" -> CONS_body(e[1], e[2], e[3], a[1], log, d)
       [] t = "NILP" -> NILP_body(a[1], log, d)
       [] t = "NILP.onnil" -> R(TRUE_v, log)
       [] t = "NILP.onlist" -> R(Clo("NILP.onlist.1", a), log)
       [] t = "NILP.onlist.1" -> R(FALSE_v, log)
       [] t = "HEAD" -> HEAD_body(a[1], log, d)
       [] t = "HEAD.onlist" -> R(Clo("HEAD.onlist.1", a), log)
       [] t = "HEAD.onlist.1" -> R(e[1], log)
       [] t = "TAIL" -> TAIL_body(a[1], log, d)
       [] t = "TAIL.onlist" -> R(Clo("TAIL.onlist.1", a), log)
       [] t = "TAIL.onlist.1" -> R(a[1], log)
       [] t = "U" -> U_body(a[1], log, d)
       [] t = "Y.h" -> R(Clo("Y.F", a), log)
       [] t = "Y.F" -> Y_F_body(e[1], a[1], log, d)
       [] t = "Y.eta" -> Y_eta_body(e[1], e[2], a[1], log, d)
       [] t = "fact" -> R(Clo("fact.1", a), log)
       [] t = "fact.1" -> fact_body(e[1], a[1], log, d)
       [] t = "thunk" -> thunk_body(fn, log, d)
       [] t = "raiser" -> raiser_body(fn, log, d)

\* A Python call.  The callee and the arguments are values (an exception
\* raised while computing one has already propagated from the caller's
\* body); calling a non-function, or a function with the wrong number of
\* arguments, raises TypeError; a call with no frame left raises
\* RecursionError.
Call(fn, a, log, d) ==
  CASE Arity(fn.tag) # Len(a) -> R(TypeError, log)
    [] Arity(fn.tag) = Len(a) /\ d = 0 -> R(RecursionError, log)
    [] Arity(fn.tag) = Len(a) /\ d > 0 -> Body(fn, a, log, d - 1)

\* Entry points used by the driver: a call from the top level.
Run(fn, a) == Call(fn, <<a>>, <<>>, MaxDepth)
Run2(fn, a, b) == Call2(fn, a, b, <<>>, MaxDepth)
Run3(fn, a, b, c) ==
  LET r == Call2(fn, a, b, <<>>, MaxDepth)
  IN IF IsFault(r.v) THEN r ELSE Call(r.v, <<c>>, r.log, MaxDepth)
numeral(k) == Run(numeral_v, IntV(k)).v
natify(f) == Run(natify_v, f)

-----------------------------------------------------------------------------
(* The values a caller works with.                                         *)

HostFns == {INC_v, DBL_v}
Seeds == {IntV(0), IntV(1)}
FOUR_v == numeral(4)
EIGHT_v == numeral(8)
Literals == {ONE_v, TWO_v, THREE_v, FOUR_v, EIGHT_v}
Operands == {numeral(0), TWO_v}
\* Thunks for the true and the false position: a value producer or one that raises.
Rets == {IntV(0), IntV(1), IntV(2), TRUE_v, NIL_v, ID_v}
TrueThunks == {Thunk(1, v) : v \in Rets} \cup {Raiser(1)}
FalseThunks == {Thunk(2, v) : v \in Rets} \cup {Raiser(2)}
\* Components of pairs: integers and closures of several shapes.
Vals == {IntV(0), IntV(7), TRUE_v, FALSE_v, NIL_v, TWO_v, numeral(2),
         Run2(PAIR_v, IntV(1), IntV(2)).v, Run2(CONS_v, IntV(1), NIL_v).v}
\* Elements of lists.
ListVals == {IntV(1), IntV(2), NIL_v}
\* Generators handed to Y.  Each of the lazy ones returns a function without
\* calling its argument; U calls its argument at once.
LazyGenerators ==
  {fact_v, Clo("RIGHT.sel", <<>>), TRUE_v, ONE_v, TWO_v, SUCC_v,
   numeral(0), numeral(1), numeral(2)}
EagerGenerators == {U_v}
YArgs == {IntV(i) : i \in -1..MaxArg} \cup {ID_v}

NoChangeNum == UNCHANGED <<num, succs, ops>>
NoChangePair == UNCHANGED pr
NoChangeList == UNCHANGED <<lst, elems>>
NoChangeY == UNCHANGED yf

Init ==
  /\ op = "init"
  /\ args = <<>>
  /\ res = R(IntV(0), <<>>)
  /\ num = numeral(0)
  /\ succs = 0
  /\ ops = 0
  /\ pr = NIL_v
  /\ lst = NIL_v
  /\ elems = <<>>
  /\ yf = ID_v

-----------------------------------------------------------------------------
(* Numerals: the driver's numeral, SUCC, SUM and MULT demonstrations.  num *)
(* is the numeral the driver holds; succs counts the SUCCs applied since   *)
(* numeral(0) was loaded (-1 when num was not built that way).             *)

\* numeral(k)(f)(z)
DoNumeral(k, f, z) ==
  /\ op' = "numeral"
  /\ args' = <<IntV(k), f, z>>
  /\ num' = numeral(k)
  /\ res' = Run3(numeral_v, IntV(k), f, z)
  /\ succs' = IF k = 0 THEN 0 ELSE -1
  /\ ops' = 0
  /\ NoChangePair /\ NoChangeList /\ NoChangeY

\* c(f)(z) for a numeral bound to a global name
DoLiteral(c, f, z) ==
  /\ op' = "literal"
  /\ args' = <<c, f, z>>
  /\ num' = c
  /\ res' = Run2(c, f, z)
  /\ succs' = -1
  /\ ops' = 0
  /\ NoChangePair /\ NoChangeList /\ NoChangeY

\* natify(c)
DoNatify(c) ==
  /\ op' = "natify"
  /\ args' = <<c>>
  /\ num' = c
  /\ res' = natify(c)
  /\ succs' = -1
  /\ ops' = 0
  /\ NoChangePair /\ NoChangeList /\ NoChangeY

\* num = SUCC(num); natify(num)
DoSUCC ==
  /\ ops < MaxOps
  /\ natify(num).v.n < MaxNat
  /\ op' = "SUCC"
  /\ args' = <<num>>
  /\ num' = Run(SUCC_v, num).v
  /\ res' = natify(num')
  /\ succs' = IF succs >= 0 THEN succs + 1 ELSE -1
  /\ ops' = ops + 1
  /\ NoChangePair /\ NoChangeList /\ NoChangeY

\* num = SUM(n)(m); natify(num), one of n, m being the numeral held
DoSUM(n, m) ==
  /\ ops < MaxOps
  /\ natify(n).v.n + natify(m).v.n <= MaxNat
  /\ op' = "SUM"
  /\ args' = <<n, m>>
  /\ num' = Run2(SUM_v, n, m).v
  /\ res' = natify(num')
  /\ succs' = -1
  /\ ops' = ops + 1
  /\ NoChangePair /\ NoChangeList /\ NoChangeY

\* num = MULT(n)(m); natify(num), one of n, m being the numeral held
DoMULT(n, m) ==
  /\ ops < MaxOps
  /\ natify(n).v.n * natify(m).v.n <= MaxNat
  /\ op' = "MULT"
  /\ args' = <<n, m>>
  /\ num' = Run2(MULT_v, n, m).v
  /\ res' = natify(num')
  /\ succs' = -1
  /\ ops' = ops + 1
  /\ NoChangePair /\ NoChangeList /\ NoChangeY

NextNum ==
  \/ \E k \in 0..MaxN, f \in HostFns, z \in Seeds : DoNumeral(k, f, z)
  \/ \E c \in Literals, f \in HostFns, z \in Seeds : DoLiteral(c, f, z)
  \/ \E c \in Literals : DoNatify(c)
  \/ DoSUCC
  \/ \E m \in Operands \cup {num} : DoSUM(num, m) \/ DoSUM(m, num)
  \/ \E m \in Operands \cup {num} : DoMULT(num, m) \/ DoMULT(m, num)

SpecNum == Init /\ [][NextNum]_vars

-----------------------------------------------------------------------------
(* Booleans: IF(cond)(t)(f) and cond(t)(f) on thunks.                      *)

DoIF(cond, t, f) ==
  /\ op' = "IF"
  /\ args' = <<cond, t, f>>
  /\ res' = Run3(IF_v, cond, t, f)
  /\ NoChangeNum /\ NoChangePair /\ NoChangeList /\ NoChangeY

DoSelect(cond, t, f) ==
  /\ op' = "select"
  /\ args' = <<cond, t, f>>
  /\ res' = Run2(cond, t, f)
  /\ NoChangeNum /\ NoChangePair /\ NoChangeList /\ NoChangeY

NextBool ==
  \/ \E cond \in {TRUE_v, FALSE_v}, t \in TrueThunks, f \in FalseThunks : DoIF(cond, t, f)
  \/ \E cond \in {TRUE_v, FALSE_v}, t \in TrueThunks, f \in FalseThunks : DoSelect(cond, t, f)

SpecBool == Init /\ [][NextBool]_vars

-----------------------------------------------------------------------------
(* Pairs: pr is the pair the driver holds, args its two components.        *)

DoPAIR(a, b) ==
  /\ op' = "PAIR"
  /\ args' = <<a, b>>
  /\ res' = Run2(PAIR_v, a, b)
  /\ pr' = res'.v
  /\ NoChangeNum /\ NoChangeList /\ NoChangeY

DoLEFT ==
  /\ op \in {"PAIR", "LEFT", "RIGHT"}
  /\ op' = "LEFT"
  /\ res' = Run(LEFT_v, pr)
  /\ UNCHANGED args
  /\ NoChangeNum /\ NoChangePair /\ NoChangeList /\ NoChangeY

DoRIGHT ==
  /\ op \in {"PAIR", "LEFT", "RIGHT"}
  /\ op' = "RIGHT"
  /\ res' = Run(RIGHT_v, pr)
  /\ UNCHANGED args
  /\ NoChangeNum /\ NoChangePair /\ NoChangeList /\ NoChangeY

NextPair ==
  \/ \E a \in Vals, b \in Vals : DoPAIR(a, b)
  \/ DoLEFT
  \/ DoRIGHT

SpecPair == Init /\ [][NextPair]_vars

-----------------------------------------------------------------------------
(* Lists: lst is the list the driver holds, elems the elements CONSed onto *)
(* NIL and not yet dropped by TAIL, first element first.                   *)

\* lst = CONS(h)(lst)
DoCONS(h) ==
  /\ Len(elems) < MaxLen
  /\ op' = "CONS"
  /\ args' = <<h, lst>>
  /\ res' = Run2(CONS_v, h, lst)
  /\ lst' = res'.v
  /\ elems' = <<h>> \o elems
  /\ NoChangeNum /\ NoChangePair /\ NoChangeY

\* HEAD(lst)
DoHEAD ==
  /\ op' = "HEAD"
  /\ args' = <<lst>>
  /\ res' = Run(HEAD_v, lst)
  /\ NoChangeNum /\ NoChangePair /\ NoChangeList /\ NoChangeY

\* lst = TAIL(lst); an exception leaves lst as it was
DoTAIL ==
  /\ op' = "TAIL"
  /\ args' = <<lst>>
  /\ res' = Run(TAIL_v, lst)
  /\ lst' = IF IsFault(res'.v) THEN lst ELSE res'.v
  /\ elems' = IF IsFault(res'.v) \/ elems = <<>> THEN elems ELSE Tail(elems)
  /\ NoChangeNum /\ NoChangePair /\ NoChangeY

\* NILP(lst)(t)(f) on two thunks that tell which branch was taken
Selects(b, log) == Call2(b, Thunk(1, IntV(1)), Thunk(2, IntV(0)), log, MaxDepth)

DoNILP ==
  /\ op' = "NILP"
  /\ args' = <<lst>>
  /\ res' = LET r == Run(NILP_v, lst)
             IN IF IsFault(r.v) THEN r ELSE Selects(r.v, r.log)
  /\ NoChangeNum /\ NoChangePair /\ NoChangeList /\ NoChangeY

NextList ==
  \/ \E h \in ListVals : DoCONS(h)
  \/ DoHEAD
  \/ DoTAIL
  \/ DoNILP

SpecList == Init /\ [][NextList]_vars

-----------------------------------------------------------------------------
(* Fixed points: yf = Y(generator), then yf(x) and generator(yf)(x).       *)

DoY(g) ==
  /\ op' = "Y"
  /\ args' = <<g>>
  /\ res' = Run(Y_v, g)
  /\ yf' = res'.v
  /\ NoChangeNum /\ NoChangePair /\ NoChangeList

DoApply(x) ==
  /\ op \in {"Y", "apply", "unfold"}
  /\ ~IsFault(yf)
  /\ op' = "apply"
  /\ args' = <<args[1], x>>
  /\ res' = Run(yf, x)
  /\ NoChangeNum /\ NoChangePair /\ NoChangeList /\ NoChangeY

DoUnfold(x) ==
  /\ op \in {"Y", "apply", "unfold"}
  /\ ~IsFault(yf)
  /\ op' = "unfold"
  /\ args' = <<args[1], x>>
  /\ res' = Run2(args[1], yf, x)
  /\ NoChangeNum /\ NoChangePair /\ NoChangeList /\ NoChangeY

NextY ==
  \/ \E g \in LazyGenerators \cup EagerGenerators : DoY(g)
  \/ \E x \in YArgs : DoApply(x)
  \/ \E x \in YArgs : DoUnfold(x)

SpecY == Init /\ [][NextY]_vars

-----------------------------------------------------------------------------
(* Properties.                                                             *)

\* What the driver's host functions compute, and their n-fold iteration.
HostApply(f, x) == IF f = INC_v THEN x + 1 ELSE 2 * x

RECURSIVE Iter(_, _, _)
Iter(f, n, z) == IF n = 0 THEN z ELSE HostApply(f, Iter(f, n - 1, z))

Decode(c) == natify(c).v.n
Decodes(c) == natify(c).v.tag = "int"

\* C1: numeral(n)(f)(z) applies f to z exactly n times (z is returned
\* unchanged for n = 0), and natify(numeral(n)) is n.
NumeralApplies ==
  op = "numeral" =>
    LET k == args[1].n
        f == args[2]
        z == args[3]
    IN /\ res.v = IntV(Iter(f, k, z.n))
       /\ res.log = [i \in 1..k |-> f]
       /\ (k = 0 => res.v = z)
       /\ natify(num).v = IntV(k)

NumeralWitness ==
  /\ op = "numeral"
  /\ args = <<IntV(3), DBL_v, IntV(1)>>
  /\ res.v = IntV(8)
  /\ Len(res.log) = 3

\* C4: natify(SUM(n)(m)) is natify(n) + natify(m), for numerals built by
\* numeral, hand-built, or results of earlier SUCC/SUM/MULT steps.
SumAdds ==
  op = "SUM" =>
    /\ Decodes(args[1]) /\ Decodes(args[2])
    /\ res.v = IntV(Decode(args[1]) + Decode(args[2]))

SumWitness ==
  /\ op = "SUM"
  /\ args = <<TWO_v, EIGHT_v>>
  /\ res.v = IntV(10)

\* C5: natify(MULT(n)(m)) is natify(n) * natify(m), also when an operand
\* is the numeral for 0.
MultMultiplies ==
  op = "MULT" =>
    /\ Decodes(args[1]) /\ Decodes(args[2])
    /\ res.v = IntV(Decode(args[1]) * Decode(args[2]))

MultWitness ==
  /\ op = "MULT"
  /\ args[1] = numeral(0)
  /\ Decode(args[2]) = 4
  /\ ops = 2
  /\ res.v = IntV(0)

\* C6: natify(SUCC(n)) is natify(n) + 1, and k successive SUCCs starting
\* from numeral(0) decode to k.
SuccAddsOne ==
  /\ op = "SUCC" => Decodes(args[1]) /\ res.v = IntV(Decode(args[1]) + 1)
  /\ succs >= 0 => natify(num).v = IntV(succs)

SuccWitness ==
  /\ op = "SUCC"
  /\ succs = 2
  /\ res.v = IntV(2)

\* C10: the numerals bound to ONE, TWO, THREE, FOUR and EIGHT decode to 1,
\* 2, 3, 4 and 8, and ONE, TWO, THREE applied to any f and z give what
\* numeral(1), numeral(2), numeral(3) give.
LitVal(c) ==
  CASE c = ONE_v -> 1
    [] c = TWO_v -> 2
    [] c = THREE_v -> 3
    [] c = FOUR_v -> 4
    [] c = EIGHT_v -> 8

LiteralsCoincide ==
  /\ op = "natify" => res.v = IntV(LitVal(args[1]))
  /\ op = "literal" =>
       LET r == Run3(numeral_v, IntV(LitVal(args[1])), args[2], args[3])
       IN res.v = r.v /\ res.log = r.log

LiteralsWitness ==
  /\ op = "literal"
  /\ args = <<THREE_v, DBL_v, IntV(1)>>
  /\ res.v = IntV(8)

\* C7: IF(TRUE)(t)(f) returns the result of invoking t, IF(FALSE)(t)(f)
\* that of invoking f; the selected thunk is invoked exactly once and the
\* other one never.
Produces(t) == IF t.tag = "thunk" THEN t.env[1] ELSE HostError

IfSelects ==
  op = "IF" =>
    LET sel == IF args[1] = TRUE_v THEN args[2] ELSE args[3]
    IN res.v = Produces(sel) /\ res.log = <<sel>>

IfWitness ==
  /\ op = "IF"
  /\ args = <<FALSE_v, Raiser(1), Thunk(2, IntV(1))>>
  /\ res = R(IntV(1), <<Thunk(2, IntV(1))>>)

\* C9: LEFT(PAIR(a)(b)) is a and RIGHT(PAIR(a)(b)) is b, whatever a and b.
PairProjections ==
  /\ op = "LEFT" => res.v = args[1]
  /\ op = "RIGHT" => res.v = args[2]

PairWitness ==
  /\ op = "RIGHT"
  /\ args = <<IntV(7), TRUE_v>>
  /\ res.v = TRUE_v

\* The list after k TAILs.
RECURSIVE NthTail(_, _)
NthTail(l, k) ==
  IF k = 0 \/ IsFault(l) THEN l ELSE NthTail(Run(TAIL_v, l).v, k - 1)

SelectsTrue(l) ==
  LET r == Run(NILP_v, l)
  IN ~IsFault(r.v) /\ Selects(r.v, r.log) = R(IntV(1), <<Thunk(1, IntV(1))>>)
SelectsFalse(l) ==
  LET r == Run(NILP_v, l)
  IN ~IsFault(r.v) /\ Selects(r.v, r.log) = R(IntV(0), <<Thunk(2, IntV(0))>>)

\* C8: NILP(NIL) selects its true-branch, NILP(CONS(h)(t)) its
\* false-branch, HEAD(CONS(h)(t)) is h and TAIL(CONS(h)(t)) is t; k TAILs
\* and a HEAD give the k-th element, and NILP becomes true exactly after as
\* many TAILs as there were CONSes.
ListLaws ==
  /\ SelectsTrue(NIL_v)
  /\ op = "CONS" =>
       /\ SelectsFalse(lst)
       /\ Run(HEAD_v, lst).v = args[1]
       /\ Run(TAIL_v, lst).v = args[2]
  /\ op = "HEAD" /\ elems # <<>> => res.v = elems[1]
  /\ op = "NILP" => (res.v = IntV(1) <=> elems = <<>>)
  /\ \A k \in 0..Len(elems) :
       /\ ~IsFault(NthTail(lst, k))
       /\ k < Len(elems) => Run(HEAD_v, NthTail(lst, k)).v = elems[k + 1]
       /\ k < Len(elems) => SelectsFalse(NthTail(lst, k))
       /\ k = Len(elems) => SelectsTrue(NthTail(lst, k))

ListWitness ==
  /\ op = "TAIL"
  /\ elems = <<IntV(2), NIL_v>>
  /\ Run(HEAD_v, NthTail(lst, 1)).v = NIL_v
  /\ SelectsTrue(NthTail(lst, 2))

\* C3: HEAD(NIL) and TAIL(NIL) raise the exception that says a void value
\* was invoked.
HeadTailOfNilRaiseVoid ==
  op \in {"HEAD", "TAIL"} /\ args[1] = NIL_v => res.v = VoidError

\* n! on the host's integers.
RECURSIVE Factorial(_)
Factorial(n) == IF n <= 0 THEN 1 ELSE n * Factorial(n - 1)

Observable(v) == v.tag = "int" \/ IsFault(v)

\* C2: for a generator that calls its argument only inside the function it
\* returns, Y(generator) returns a function f, and f(x) gives what
\* generator(f)(x) gives; with the factorial generator f(n) is n! for
\* n >= 0 and 1 for n <= 0.
YFixedPoint ==
  /\ op = "Y" /\ args[1] \in LazyGenerators => ~IsFault(yf) /\ Arity(yf.tag) = 1
  /\ op = "apply" /\ args[1] \in LazyGenerators =>
       LET g == Run2(args[1], yf, args[2])
       IN Observable(res.v) \/ Observable(g.v) => res.v = g.v /\ res.log = g.log
  /\ op = "apply" /\ args[1] = fact_v /\ args[2].tag = "int" =>
       res.v = IntV(Factorial(args[2].n))

YWitness ==
  /\ op = "apply"
  /\ args = <<fact_v, IntV(5)>>
  /\ res.v = IntV(120)

-----------------------------------------------------------------------------
(* The driver may interleave all of the above; the components share no     *)
(* register, so each is checked under its own specification.               *)

Next == NextNum \/ NextBool \/ NextPair \/ NextList \/ NextY

Spec == Init /\ [][Next]_vars
====
